---- MODULE Spec2Model ----
(***************************************************************************)
(* Model of src/config.c (i3xrocks configuration loading): the reset /     *)
(* finalize life cycle of sections driven by the INI reader's events, the  *)
(* candidate fallback of config_load and the directory mode of             *)
(* config_dir_load.                                                        *)
(***************************************************************************)
EXTENDS Integers, Sequences, FiniteSets, TLC

\* ---------------------------------------------------------------- bounds
MaxEvents == 4      \* section / property events read in a config_dir_load run
MaxLoadEvents == 1  \* section / property events read in a config_load run

\* ------------------------------------------------------ program constants
ENOENT == 2
EAGAIN == 11
ENOMEM == 12
EACCES == 13
EINVAL == 22

\* ------------------------------------------------------------ input sets
Keys == {"name", "g"}
Props == {<<"g", "1">>, <<"g", "2">>, <<"name", "1">>}
SecNames == {"A"}
CbRets == {0, -ENOENT, -EAGAIN, -EINVAL}
OpenRets == {0, -ENOENT, -EACCES}
ChdirRets == {0, -ENOENT, -EACCES}
EndRets == {0, -EAGAIN}
ReaderErrs == {-EINVAL}

\* A pointer is NULL or a one-element tuple holding the store it points to.
NULL == <<>>
EmptyMap == [k \in {} |-> ""]
GarbageMaps == {EmptyMap, [k \in {"g"} |-> "2"]}

\* --------------------------------------------------- key/value store (map.h)
map_create == EmptyMap

map_set(m, k, v) == [x \in DOMAIN m \cup {k} |-> IF x = k THEN v ELSE m[x]]

map_copy(dst, src) ==
    [x \in DOMAIN dst \cup DOMAIN src |-> IF x \in DOMAIN src THEN src[x] ELSE dst[x]]

\* ------------------------------------------------------------- variables
VARIABLES
    fn,         \* the top-level entry point of this run
    arg,        \* its arguments: [path, rel]: a path is given, and it is relative
    env,        \* HOME, XDG_CONFIG_HOME, XDG_CONFIG_DIRS: set or not
    pc,         \* position of the single flow of control
    conf,       \* struct config: [section, global, cb]
    freed,      \* the store conf.global points to has been map_destroy()ed
    cands,      \* config_load: the paths it would try, in order
    namelist,   \* config_dir_load: scandir()'s result
    i,          \* index of the current candidate / directory entry
    buf,        \* the path handed to config_open
    err,        \* the status config_open hands back to its caller
    rerr,       \* the status ini_read handed back to config_read
    ret,        \* the status the top-level call returned
    fds,        \* descriptors opened by sys_open and not yet closed
    cwd,        \* working directory
    nev,        \* number of section / property events emitted so far
    log,        \* history: the reader's events, in order
    calls,      \* history: the callback invocations, in order
    opens,      \* history: the sys_open attempts, in order
    loads,      \* history: the statuses config_open returned, in order
    diag,       \* history: scandir failed, the quiet argument then, perror(path)
    live        \* section stores made by map_create and not destroyed since

vars == <<fn, arg, env, pc, conf, freed, cands, namelist, i, buf, err, rerr,
          ret, fds, cwd, nev, log, calls, opens, loads, diag, live>>

\* ------------------------------------------------------------------ paths
Path(d, b) == [dir |-> d, base |-> b]
NoPath == Path("", "")
ExplicitPath == Path("P", "conf")
DirPath == "D"
AllNames == <<".", "..", "10", "20">>
dirname(p) == p.dir

\* config_load without a path: the user and system candidates, in the order
\* the code tries them.
Fallbacks(home, xdg_home, xdg_dirs) ==
    (IF home
     THEN << IF xdg_home THEN Path("$XDG_CONFIG_HOME/i3xrocks", "config")
                         ELSE Path("$HOME/.config/i3xrocks", "config"),
             Path("$HOME", ".i3xrocks.conf") >>
     ELSE <<>>)
    \o << IF xdg_dirs THEN Path("$XDG_CONFIG_DIRS/i3xrocks", "config")
                      ELSE Path("/etc/xdg/i3xrocks", "config"),
          Path("/etc", "i3xrocks.conf") >>

\* Mutant of Candidates: a given path is tried first, the fallbacks after it.
Candidates_pathfirst(path, home, xdg_home, xdg_dirs) ==
    (IF path THEN <<ExplicitPath>> ELSE <<>>) \o Fallbacks(home, xdg_home, xdg_dirs)

\* config_load: the paths it would hand to config_open, in order.
Candidates(path, home, xdg_home, xdg_dirs) ==
    IF path THEN <<ExplicitPath>> ELSE Fallbacks(home, xdg_home, xdg_dirs)

\* config_load: after a candidate's config_open returned e, is the next tried?
TryNext(e, idx, n) == idx < n /\ e = -ENOENT

\* scandir(path, &namelist, NULL, alphasort): the entries S in sorted order.
RECURSIVE SortedNames(_, _)
SortedNames(S, k) ==
    IF k > Len(AllNames) THEN <<>>
    ELSE (IF k \in S THEN <<AllNames[k]>> ELSE <<>>) \o SortedNames(S, k + 1)

Listings == {SortedNames({1, 2} \cup F, 1) : F \in SUBSET (3 .. Len(AllNames))}

\* Mutant of Perror: the diagnostic is printed whatever quiet says.
Perror_always(quiet) == TRUE

\* config_dir_load, scandir failed: is perror(path) called?
Perror(quiet) == ~quiet

\* config_dir_load: the entries that are not loaded.
Skipped(name) == name = "." \/ name = ".."

\* Mutant of DirAbort: a missing entry is skipped, as config_load skips a
\* missing candidate.
DirAbort_skipmissing(e) == e # 0 /\ e # -ENOENT

\* config_dir_load: does a config_open status end the loop?
DirAbort(e) == e # 0

\* ------------------------------------------------- the section life cycle
\* config_finalize invokes the callback.
Invoked(c) == c.section # NULL /\ c.cb

\* Mutant of config_finalize: the callback is invoked also when no section is
\* open, with an empty map.
config_finalize_nosection(c, r) ==
    IF c.cb
    THEN IF r # 0
         THEN [err |-> r, conf |-> c,
               dl |-> <<IF c.section # NULL THEN c.section[1] ELSE EmptyMap>>]
         ELSE [err |-> 0, conf |-> [c EXCEPT !.section = NULL],
               dl |-> <<IF c.section # NULL THEN c.section[1] ELSE EmptyMap>>]
    ELSE [err |-> 0, conf |-> [c EXCEPT !.section = NULL], dl |-> <<>>]

\* config_finalize: r is what the callback returns if it is invoked; dl holds the
\* map it is invoked with.
config_finalize(c, r) ==
    IF c.section # NULL
    THEN IF c.cb
         THEN IF r # 0
              THEN [err |-> r, conf |-> c, dl |-> <<c.section[1]>>]
              ELSE [err |-> 0, conf |-> [c EXCEPT !.section = NULL],
                    dl |-> <<c.section[1]>>]
         ELSE [err |-> 0, conf |-> [c EXCEPT !.section = NULL], dl |-> <<>>]
    ELSE [err |-> 0, conf |-> c, dl |-> <<>>]

\* Mutant of config_reset: the new section does not start from the defaults.
config_reset_nocopy(c, mem, src) ==
    IF mem = "create"
    THEN [err |-> -ENOMEM, conf |-> [c EXCEPT !.section = NULL]]
    ELSE [err |-> 0, conf |-> [c EXCEPT !.section = <<map_create>>]]

\* config_reset: mem says which allocation fails, src is what map_copy reads
\* through conf->global.
config_reset(c, mem, src) ==
    IF mem = "create"
    THEN [err |-> -ENOMEM, conf |-> [c EXCEPT !.section = NULL]]
    ELSE IF c.global # NULL
         THEN IF mem = "copy"
              THEN [err |-> -ENOMEM, conf |-> [c EXCEPT !.section = <<map_create>>]]
              ELSE [err |-> 0,
                    conf |-> [c EXCEPT !.section = <<map_copy(map_create, src)>>]]
         ELSE [err |-> 0, conf |-> [c EXCEPT !.section = <<map_create>>]]

\* Mutant of config_set: the write goes to the global store also while a
\* section is open.
config_set_toglobal(c, key, value, mem) ==
    IF c.global = NULL /\ mem = "create"
    THEN [err |-> -ENOMEM, conf |-> c]
    ELSE LET g == IF c.global = NULL THEN map_create ELSE c.global[1]
         IN  IF mem = "set"
             THEN [err |-> -ENOMEM, conf |-> [c EXCEPT !.global = <<g>>]]
             ELSE [err |-> 0, conf |-> [c EXCEPT !.global = <<map_set(g, key, value)>>]]

\* config_set
config_set(c, key, value, mem) ==
    IF c.section # NULL
    THEN IF mem = "set"
         THEN [err |-> -ENOMEM, conf |-> c]
         ELSE [err |-> 0,
               conf |-> [c EXCEPT !.section = <<map_set(c.section[1], key, value)>>]]
    ELSE IF c.global = NULL /\ mem = "create"
         THEN [err |-> -ENOMEM, conf |-> c]
         ELSE LET g == IF c.global = NULL THEN map_create ELSE c.global[1]
              IN  IF mem = "set"
                  THEN [err |-> -ENOMEM, conf |-> [c EXCEPT !.global = <<g>>]]
                  ELSE [err |-> 0,
                        conf |-> [c EXCEPT !.global = <<map_set(g, key, value)>>]]

\* Mutant of config_ini_section_cb: "name" is written into the new section
\* before the defaults are copied over it.
config_ini_section_cb_namefirst(c, section, r, mem, src) ==
    LET f == config_finalize(c, r) IN
    IF f.err # 0 THEN f
    ELSE LET named == map_set(map_create, "name", section)
             copied == IF f.conf.global # NULL THEN map_copy(named, src) ELSE named
         IN  IF mem # "ok"
             THEN [err |-> -ENOMEM, conf |-> f.conf, dl |-> f.dl]
             ELSE [err |-> 0, conf |-> [f.conf EXCEPT !.section = <<copied>>],
                   dl |-> f.dl]

\* Mutant of config_ini_section_cb: the new section is not given its name.
config_ini_section_cb_noname(c, section, r, mem, src) ==
    LET f == config_finalize(c, r) IN
    IF f.err # 0 THEN f
    ELSE LET s == config_reset(f.conf, mem, src)
         IN  [err |-> s.err, conf |-> s.conf, dl |-> f.dl]

\* Mutant of config_ini_section_cb: the section is reset before the previous
\* one is finalized.
config_ini_section_cb_resetfirst(c, section, r, mem, src) ==
    LET s == config_reset(c, mem, src) IN
    IF s.err # 0 THEN [err |-> s.err, conf |-> s.conf, dl |-> <<>>]
    ELSE LET f == config_finalize(s.conf, r) IN
         IF f.err # 0 THEN f
         ELSE LET w == config_set(f.conf, "name", section, mem)
              IN  [err |-> w.err, conf |-> w.conf, dl |-> f.dl]

\* config_ini_section_cb
config_ini_section_cb(c, section, r, mem, src) ==
    LET f == config_finalize(c, r) IN
    IF f.err # 0 THEN f
    ELSE LET s == config_reset(f.conf, mem, src) IN
         IF s.err # 0 THEN [err |-> s.err, conf |-> s.conf, dl |-> f.dl]
         ELSE LET w == config_set(s.conf, "name", section, mem)
              IN  [err |-> w.err, conf |-> w.conf, dl |-> f.dl]

\* config_ini_section_cb: the section stores it allocates (config_reset's
\* map_create, reached when config_finalize returned 0) less those it destroys
\* (none: no path of the code calls map_destroy on a section).
Created(c, r, mem) ==
    IF config_finalize(c, r).err = 0 /\ mem # "create" THEN 1 ELSE 0

\* config_ini_property_cb
config_ini_property_cb(c, key, value, mem) == config_set(c, key, value, mem)

\* The history's records of the callback invocations dl, which returned r while
\* event number at of file f was handled in directory d.
Delivered(dl, f, r, at, d) ==
    [n \in 1 .. Len(dl) |-> [f |-> f, map |-> dl[n], ret |-> r, at |-> at, cwd |-> d]]

\* Mutant of SingleMode: config_dir_load passes true as well, so the global
\* store is destroyed after every entry.
SingleMode_always(f) == TRUE

\* config_open's single_mode argument, as each entry point passes it.
SingleMode(f) == f = "config_load"

\* Mutant of ReadFinalizes: -EAGAIN is taken for an error like any other.
ReadFinalizes_zeroonly(e) == e = 0

\* config_read, after ini_read returned e: is the open section finalized?
ReadFinalizes(e) == ~(e # 0 /\ e # -EAGAIN)

\* The reader may emit another section / property event.
MoreEvents == nev < (IF fn = "config_load" THEN MaxLoadEvents ELSE MaxEvents)

\* The directory a path with directory part d names when the kernel resolves
\* it now: a relative path is resolved against the working directory.
Resolve(d) == IF arg.rel THEN cwd \o "/" \o d ELSE d

\* ------------------------------------------------------------------- Init
Init ==
    /\ fn \in {"config_load", "config_dir_load"}
    /\ arg \in [path : BOOLEAN, rel : BOOLEAN]
    /\ env \in [home : BOOLEAN, xdg_home : BOOLEAN, xdg_dirs : BOOLEAN]
    /\ fn = "config_dir_load" =>
          arg.path /\ env = [home |-> FALSE, xdg_home |-> FALSE, xdg_dirs |-> FALSE]
    /\ fn = "config_load" => ~arg.rel
    /\ pc = "entry"
    /\ conf \in [section : {NULL}, global : {NULL}, cb : BOOLEAN]
    /\ freed = FALSE
    /\ cands = <<>>
    /\ namelist = <<>>
    /\ i = 0
    /\ buf = NoPath
    /\ err = 0
    /\ rerr = 0
    /\ ret = 0
    /\ fds = 0
    /\ cwd = "."
    /\ nev = 0
    /\ log = <<>>
    /\ calls = <<>>
    /\ opens = <<>>
    /\ loads = <<>>
    /\ diag = [failed |-> FALSE, quiet |-> FALSE, perror |-> FALSE]
    /\ live = 0

\* ---------------------------------------------------------------- actions
\* config_load up to its first config_open (lines 152-175).
ConfigLoad ==
    /\ pc = "entry" /\ fn = "config_load"
    /\ cands' = Candidates(arg.path, env.home, env.xdg_home, env.xdg_dirs)
    /\ i' = 1
    /\ buf' = cands'[1]
    /\ pc' = "open"
    /\ UNCHANGED <<live, fn, arg, env, conf, freed, namelist, err, rerr, ret, fds, cwd,
                   nev, log, calls, opens, loads, diag>>

\* config_dir_load: scandir and, when it fails, the return (lines 198-213, 231-234).
ConfigDirLoad ==
    /\ pc = "entry" /\ fn = "config_dir_load"
    /\ \E n \in {-1, 0}, quiet \in BOOLEAN :
          IF n < 0
          THEN /\ diag' = [failed |-> TRUE, quiet |-> quiet, perror |-> Perror(quiet)]
               /\ ret' = -1
               /\ pc' = "done"
               /\ UNCHANGED <<namelist, i>>
          ELSE /\ \E l \in Listings : namelist' = l
               /\ i' = 1
               /\ pc' = "loop"
               /\ UNCHANGED <<diag, ret>>
    /\ UNCHANGED <<live, fn, arg, env, conf, freed, cands, buf, err, rerr, fds, cwd,
                   nev, log, calls, opens, loads>>

\* config_dir_load: one turn of the loop up to config_open, or the end of the
\* loop and the return (lines 214-219, 226-234).
DirLoop ==
    /\ pc = "loop"
    /\ IF i > Len(namelist)
       THEN /\ freed' = (freed \/ conf.global # NULL)
            /\ ret' = 0
            /\ pc' = "done"
            /\ UNCHANGED <<i, buf>>
       ELSE IF Skipped(namelist[i])
            THEN /\ i' = i + 1
                 /\ UNCHANGED <<freed, ret, pc, buf>>
            ELSE /\ buf' = Path(DirPath, namelist[i])
                 /\ pc' = "open"
                 /\ UNCHANGED <<freed, ret, i>>
    /\ UNCHANGED <<live, fn, arg, env, conf, cands, namelist, err, rerr, fds, cwd,
                   nev, log, calls, opens, loads, diag>>

\* config_open: sys_open (lines 127-131).
SysOpen ==
    /\ pc = "open"
    /\ \E r \in OpenRets :
          /\ opens' = Append(opens, [path |-> buf, res |-> r, i |-> i,
                                     where |-> Resolve(dirname(buf))])
          /\ IF r # 0
             THEN err' = r /\ pc' = "ret" /\ fds' = fds
             ELSE err' = err /\ pc' = "chdir" /\ fds' = fds + 1
    /\ UNCHANGED <<live, fn, arg, env, conf, freed, cands, namelist, i, buf, rerr, ret,
                   cwd, nev, log, calls, loads, diag>>

\* config_open: sys_chdir to the file's directory (lines 133-141).
SysChdir ==
    /\ pc = "chdir"
    /\ \E r \in ChdirRets :
          IF r # 0
          THEN err' = r /\ pc' = "ret" /\ cwd' = cwd
          ELSE err' = err /\ pc' = "read" /\ cwd' = Resolve(dirname(buf))
    /\ UNCHANGED <<live, fn, arg, env, conf, freed, cands, namelist, i, buf, rerr, ret,
                   fds, nev, log, calls, opens, loads, diag>>

\* A reader event as the history keeps it: the file it came from, its kind, the
\* key and value (a header is the write name = <header>), whether a section
\* was open when it arrived, whether its handler returned 0, and whether the
\* handler read the global store through a dangling pointer.
Event(f, t, k, v, s, ok, d) ==
    [f |-> f, t |-> t, k |-> k, v |-> v, s |-> s, ok |-> ok, d |-> d]

\* What a read through a dangling conf->global may produce.
UBReads == {[crash |-> TRUE, read |-> EmptyMap]}
              \cup {[crash |-> FALSE, read |-> m] : m \in GarbageMaps}
NoUB == [crash |-> FALSE, read |-> EmptyMap]

\* ini_read emits a section header: config_ini_section_cb (lines 87-100).
IniSection ==
    /\ pc = "read" /\ MoreEvents
    /\ \E name \in SecNames,
          r \in (IF Invoked(conf) THEN CbRets ELSE {0}),
          mem \in {"ok", "create", "copy", "set"},
          ub \in (IF conf.global # NULL /\ freed THEN UBReads ELSE {NoUB}) :
          LET src == IF conf.global = NULL THEN EmptyMap
                     ELSE IF freed THEN ub.read ELSE conf.global[1]
              h == config_ini_section_cb(conf, name, r, mem, src)
              copies == config_finalize(conf, r).err = 0 /\ mem # "create"
                           /\ conf.global # NULL
          IN  /\ log' = Append(log, Event(i, "section", "name", name, conf.section # NULL,
                                         h.err = 0 /\ ~(copies /\ ub.crash),
                                         copies /\ freed))
              /\ calls' = calls \o Delivered(h.dl, i, r, Len(log'), cwd)
              /\ conf' = h.conf
              /\ live' = live + Created(conf, r, mem)
              /\ IF copies /\ ub.crash
                 THEN pc' = "crashed" /\ rerr' = rerr
                 ELSE IF h.err # 0
                      THEN pc' = "readret" /\ rerr' = h.err
                      ELSE pc' = pc /\ rerr' = rerr
    /\ nev' = nev + 1
    /\ UNCHANGED <<fn, arg, env, freed, cands, namelist, i, buf, err, ret, fds, cwd,
                   opens, loads, diag>>

\* ini_read emits a key/value: config_ini_property_cb (lines 102-105).
IniProperty ==
    /\ pc = "read" /\ MoreEvents
    /\ \E kv \in Props,
          mem \in {"ok", "create", "set"},
          crash \in (IF conf.section = NULL /\ conf.global # NULL /\ freed
                     THEN BOOLEAN ELSE {FALSE}) :
          LET h == config_ini_property_cb(conf, kv[1], kv[2], mem)
          IN  /\ log' = Append(log, Event(i, "property", kv[1], kv[2], conf.section # NULL,
                                         h.err = 0 /\ ~crash, FALSE))
              /\ conf' = h.conf
              /\ IF crash
                 THEN pc' = "crashed" /\ rerr' = rerr
                 ELSE IF h.err # 0
                      THEN pc' = "readret" /\ rerr' = h.err
                      ELSE pc' = pc /\ rerr' = rerr
    /\ nev' = nev + 1
    /\ UNCHANGED <<live, fn, arg, env, freed, cands, namelist, i, buf, err, ret, fds, cwd,
                   calls, opens, loads, diag>>

\* ini_read reaches the end of the stream and returns 0 or -EAGAIN.
IniEnd ==
    /\ pc = "read"
    /\ \E e \in EndRets :
          /\ rerr' = e
          /\ log' = Append(log, Event(i, "end", "", "", conf.section # NULL, TRUE, FALSE))
    /\ pc' = "readret"
    /\ UNCHANGED <<live, fn, arg, env, conf, freed, cands, namelist, i, buf, err, ret, fds,
                   cwd, nev, calls, opens, loads, diag>>

\* ini_read fails on its own (malformed text, read error).
IniError ==
    /\ pc = "read"
    /\ \E e \in ReaderErrs :
          /\ rerr' = e
          /\ log' = Append(log, Event(i, "error", "", "", conf.section # NULL, FALSE, FALSE))
    /\ pc' = "readret"
    /\ UNCHANGED <<live, fn, arg, env, conf, freed, cands, namelist, i, buf, err, ret, fds,
                   cwd, nev, calls, opens, loads, diag>>

\* config_read after ini_read returned, then the rest of config_open: sys_close
\* and, in single mode, map_destroy of the global store (lines 113-116, 144-149).
ConfigReadReturn ==
    /\ pc = "readret"
    /\ \E r \in (IF ReadFinalizes(rerr) /\ Invoked(conf) THEN CbRets ELSE {0}),
          crash \in (IF SingleMode(fn) /\ conf.global # NULL /\ freed
                     THEN BOOLEAN ELSE {FALSE}) :
          LET f == IF ReadFinalizes(rerr) THEN config_finalize(conf, r)
                   ELSE [err |-> rerr, conf |-> conf, dl |-> <<>>]
              single_mode == SingleMode(fn)
          IN  /\ calls' = calls \o Delivered(f.dl, i, r, Len(log), cwd)
              /\ conf' = f.conf
              /\ err' = f.err
              /\ fds' = fds - 1
              /\ freed' = (freed \/ (single_mode /\ conf.global # NULL))
              /\ pc' = IF crash THEN "crashed" ELSE "ret"
    /\ rerr' = 0
    /\ UNCHANGED <<live, fn, arg, env, cands, namelist, i, buf, ret, cwd, nev, log,
                   opens, loads, diag>>

\* config_load after a config_open returned (lines 167, 176-195).
ConfigLoadReturn ==
    /\ pc = "ret" /\ fn = "config_load"
    /\ IF TryNext(err, i, Len(cands))
       THEN /\ i' = i + 1
            /\ buf' = cands[i + 1]
            /\ pc' = "open"
            /\ ret' = ret
       ELSE /\ ret' = err
            /\ pc' = "done"
            /\ UNCHANGED <<i, buf>>
    /\ loads' = Append(loads, [i |-> i, err |-> err])
    /\ UNCHANGED <<live, fn, arg, env, conf, freed, cands, namelist, err, rerr, fds, cwd,
                   nev, log, calls, opens, diag>>

\* config_dir_load after a config_open returned (lines 219-227).
ConfigDirLoadReturn ==
    /\ pc = "ret" /\ fn = "config_dir_load"
    /\ IF DirAbort(err)
       THEN /\ ret' = err
            /\ pc' = "done"
            /\ i' = i
       ELSE /\ i' = i + 1
            /\ pc' = "loop"
            /\ ret' = ret
    /\ loads' = Append(loads, [i |-> i, err |-> err])
    /\ UNCHANGED <<live, fn, arg, env, conf, freed, cands, namelist, buf, err, rerr, fds,
                   cwd, nev, log, calls, opens, diag>>

Next ==
    \/ ConfigLoad
    \/ ConfigDirLoad
    \/ DirLoop
    \/ SysOpen
    \/ SysChdir
    \/ IniSection
    \/ IniProperty
    \/ IniEnd
    \/ IniError
    \/ ConfigReadReturn
    \/ ConfigLoadReturn
    \/ ConfigDirLoadReturn

Spec == Init /\ [][Next]_vars

\* ------------------------------------------------- reading the histories
Max(S) == CHOOSE x \in S : \A y \in S : y <= x
Rank(S, x) == Cardinality({y \in S : y <= x})
Nth(S, m) == CHOOSE x \in S : Rank(S, x) = m

\* The files some event was read from, and per file: its headers, its callback
\* invocations, its key/values before the first header.
Files == {log[j].f : j \in DOMAIN log}
HeadersOf(f) == {j \in DOMAIN log : log[j].f = f /\ log[j].t = "section"}
CallsOf(f) == {n \in DOMAIN calls : calls[n].f = f}
Preamble(f) ==
    {j \in DOMAIN log : /\ log[j].f = f /\ log[j].t = "property"
                        /\ \A h \in HeadersOf(f) : j < h}

\* The key/values of the section header h opens: up to the next header of the file.
Body(h) ==
    {j \in DOMAIN log : /\ j > h /\ log[j].f = log[h].f /\ log[j].t = "property"
                        /\ \A h2 \in HeadersOf(log[h].f) : ~(h < h2 /\ h2 < j)}

KeysIn(S) == {log[j].k : j \in S}
LastValue(S, k) == log[Max({j \in S : log[j].k = k})].v

\* The reader reached the end of file f, and config_read has returned for it.
Ended(f) == \E j \in DOMAIN log : log[j].f = f /\ log[j].t = "end"
Returned(f) == Ended(f) /\ ~(i = f /\ pc = "readret")

\* Every callback invocation so far returned 0.
AllZero == \A n \in DOMAIN calls : calls[n].ret = 0

\* ------------------------------------------------------------------ claims
\* C1: a file read to its end with N section headers, by a callback that always
\* returns 0, gives exactly N callback invocations, and the map of each holds
\* every key of the file's preamble, with the preamble's value unless the
\* section assigned the key itself.
C1_SectionsCarryPreamble ==
    (conf.cb /\ AllZero) =>
        \A f \in Files : Returned(f) =>
            /\ Cardinality(CallsOf(f)) = Cardinality(HeadersOf(f))
            /\ \A n \in CallsOf(f) :
                  LET h == Nth(HeadersOf(f), Rank(CallsOf(f), n))
                      own == {"name"} \cup KeysIn(Body(h))
                  IN  \A k \in KeysIn(Preamble(f)) :
                        /\ k \in DOMAIN calls[n].map
                        /\ k \notin own => calls[n].map[k] = LastValue(Preamble(f), k)

\* The events at which the section header h opens is due: the next header of
\* its file, or the end of the stream.
Stops(h) ==
    {j \in DOMAIN log : /\ j > h /\ log[j].f = log[h].f
                        /\ log[j].t \in {"section", "end"}}
Min(S) == CHOOSE x \in S : \A y \in S : x <= y

\* C2: while every callback returns 0, the n-th callback invocation of a file
\* is for its n-th header, happens when the next header (or the end of the
\* stream) arrives, carries the key "name" and the key/values of that section
\* only; a section is undelivered only while it is the last one and still open.
C2_DeliveredInHeaderOrder ==
    (conf.cb /\ AllZero) =>
        \A f \in Files :
            LET H == HeadersOf(f)
                C == CallsOf(f)
            IN  /\ Cardinality(C) =
                      IF Returned(f) \/ H = {} THEN Cardinality(H) ELSE Cardinality(H) - 1
                /\ \A n \in C :
                      /\ Rank(C, n) <= Cardinality(H)
                      /\ LET h == Nth(H, Rank(C, n))
                             c == calls[n]
                         IN  /\ Stops(h) # {}
                             /\ c.at = Min(Stops(h))
                             /\ "name" \in DOMAIN c.map
                             /\ \A k \in KeysIn(Body(h)) :
                                   k \in DOMAIN c.map /\ c.map[k] = LastValue(Body(h), k)
                             /\ "name" \notin KeysIn(Body(h)) => c.map["name"] = log[h].v

\* C2 witness: two sections of one file delivered, the first on arrival of the
\* second header, the second at the end of the stream.
C2_Witness ==
    /\ conf.cb /\ AllZero
    /\ \E f \in Files :
          /\ Returned(f)
          /\ Cardinality(HeadersOf(f)) = 2
          /\ \E n1, n2 \in CallsOf(f) :
                /\ n1 < n2
                /\ log[calls[n1].at].t = "section"
                /\ log[calls[n2].at].t = "end"
                /\ Body(Nth(HeadersOf(f), 2)) # {}

\* C1 witness: a file with a preamble and two sections, one of them overriding
\* a preamble key, has been read to its end and delivered.
C1_Witness ==
    /\ conf.cb /\ AllZero
    /\ \E f \in Files :
          /\ Returned(f)
          /\ Cardinality(HeadersOf(f)) = 2 /\ Cardinality(CallsOf(f)) = 2
          /\ "g" \in KeysIn(Preamble(f))
          /\ \E h \in HeadersOf(f) : "g" \in KeysIn(Body(h))
          /\ \E h \in HeadersOf(f) : "g" \notin KeysIn(Body(h))

\* The key/values received before event j while no section was open, and
\* recorded.
GlobalWrites(j) ==
    {x \in DOMAIN log : x < j /\ log[x].t = "property" /\ ~log[x].s /\ log[x].ok}

\* The header that opened the section delivered by the callback invocation c,
\* and the key/values recorded in that section up to the invocation.
OpenerOf(c) == Max({x \in DOMAIN log : x < c.at /\ log[x].t = "section" /\ log[x].ok})
OwnWrites(c) ==
    {x \in DOMAIN log : /\ OpenerOf(c) < x /\ x < c.at
                        /\ log[x].t = "property" /\ log[x].s /\ log[x].ok}

\* The store conf.global points to (empty when there is none).
GlobalMap == IF conf.global = NULL THEN EmptyMap ELSE conf.global[1]

\* C3: a key/value received while a section is open changes that section only:
\* the global store holds exactly the key/values received while no section was
\* open, and every delivered section (opened from a live global store) has, for
\* each key it did not assign itself, the global value of that key, or no
\* value when the global store has none.
C3_SectionWritesStayLocal ==
    /\ DOMAIN GlobalMap = KeysIn(GlobalWrites(Len(log) + 1))
    /\ \A k \in DOMAIN GlobalMap : GlobalMap[k] = LastValue(GlobalWrites(Len(log) + 1), k)
    /\ \A n \in DOMAIN calls :
          LET c == calls[n]
              h == OpenerOf(c)
              G == GlobalWrites(h)
          IN  ~log[h].d =>
                \A k \in Keys \ ({"name"} \cup KeysIn(OwnWrites(c))) :
                    IF k \in KeysIn(G)
                    THEN k \in DOMAIN c.map /\ c.map[k] = LastValue(G, k)
                    ELSE k \notin DOMAIN c.map

\* C3 witness: preamble g=1, a section without g delivered with g=1, a later
\* section of the same file that set g=2 delivered with g=2, the global store
\* still holding g=1.
C3_Witness ==
    /\ "g" \in DOMAIN GlobalMap /\ GlobalMap["g"] = "1"
    /\ \E n1, n2 \in DOMAIN calls :
          /\ n1 < n2 /\ calls[n1].f = calls[n2].f
          /\ "g" \notin KeysIn(OwnWrites(calls[n1]))
          /\ "g" \in DOMAIN calls[n1].map /\ calls[n1].map["g"] = "1"
          /\ "g" \in KeysIn(OwnWrites(calls[n2]))
          /\ "g" \in DOMAIN calls[n2].map /\ calls[n2].map["g"] = "2"

\* C4: last write wins in each scope. A delivered section holds, for each key,
\* the value of the last of: the copy of the global store made when it was
\* opened, the write name = <header>, its own key/values in order; the global
\* store holds the last value received for each key while no section was open;
\* and a key/value handler fails only when an allocation fails, never on a
\* duplicate.
C4_LastWriteWins ==
    /\ \A k \in DOMAIN GlobalMap : GlobalMap[k] = LastValue(GlobalWrites(Len(log) + 1), k)
    /\ \A n \in DOMAIN calls :
          LET c == calls[n]
              h == OpenerOf(c)
              G == GlobalWrites(h)
              own == OwnWrites(c)
          IN  /\ {"name"} \cup KeysIn(own) \subseteq DOMAIN c.map
              /\ \A k \in DOMAIN c.map :
                    IF k \in KeysIn(own) THEN c.map[k] = LastValue(own, k)
                    ELSE IF k = "name" THEN c.map[k] = log[h].v
                    ELSE ~log[h].d => k \in KeysIn(G) /\ c.map[k] = LastValue(G, k)
    /\ (pc = "readret" /\ log # <<>> /\ log[Len(log)].t = "property"
            /\ ~log[Len(log)].ok) => rerr = -ENOMEM

\* C4 witness: a section opened over a global "name" is delivered with its
\* header's name, and a section with a name=... line of its own is delivered
\* with that line's value.
C4_Witness ==
    \E n1, n2 \in DOMAIN calls :
        /\ "name" \in KeysIn(GlobalWrites(OpenerOf(calls[n1])))
        /\ "name" \notin KeysIn(OwnWrites(calls[n1]))
        /\ calls[n1].map["name"] = "A"
        /\ "name" \in KeysIn(OwnWrites(calls[n2]))
        /\ calls[n2].map["name"] = "1"

\* C5: config_load with a path makes one open attempt, on that path, whatever
\* the environment; at its return exactly one attempt was made, the status
\* returned is config_open's, and a failed open (not-found included) is that
\* status.
C5_ExplicitPathOnly ==
    (fn = "config_load" /\ arg.path) =>
        /\ Len(opens) <= 1
        /\ \A j \in DOMAIN opens : opens[j].path = ExplicitPath
        /\ pc = "done" =>
              /\ Len(opens) = 1 /\ Len(loads) = 1
              /\ ret = loads[1].err
              /\ opens[1].res # 0 => ret = opens[1].res

\* C5 witness: a path is given, HOME and XDG_CONFIG_DIRS are set, the open
\* reported not-found and config_load returned it.
C5_Witness ==
    /\ fn = "config_load" /\ arg.path /\ env.home /\ env.xdg_dirs
    /\ pc = "done" /\ Len(opens) = 1
    /\ opens[1].res = -ENOENT /\ ret = -ENOENT

\* C6 as stated: without a path the candidates are the user candidates (only
\* with HOME set) then the system candidates, attempted in that order; a
\* candidate is attempted only if the open of every earlier one reported
\* not-found; another open failure is the last attempt and the status returned.
C6_FallbackOrder ==
    (fn = "config_load" /\ ~arg.path /\ pc # "entry") =>
        /\ cands = Fallbacks(env.home, env.xdg_home, env.xdg_dirs)
        /\ Len(cands) = IF env.home THEN 4 ELSE 2
        /\ (~env.home /\ ~env.xdg_home /\ ~env.xdg_dirs) =>
              cands = <<Path("/etc/xdg/i3xrocks", "config"), Path("/etc", "i3xrocks.conf")>>
        /\ Len(opens) <= Len(cands)
        /\ \A j \in DOMAIN opens :
              /\ opens[j].path = cands[j]
              /\ \A j2 \in 1 .. (j - 1) : opens[j2].res = -ENOENT
              /\ opens[j].res \notin {0, -ENOENT} =>
                    /\ j = Len(opens)
                    /\ pc = "done" => ret = opens[j].res

\* C7 as stated: in a run of config_load at most one candidate is opened
\* successfully.
C7_AtMostOneOpened ==
    fn = "config_load" => Cardinality({j \in DOMAIN opens : opens[j].res = 0}) <= 1

\* C8 as stated: a callback invocation that returned non-zero is the last
\* invocation of the run, no section or key/value event is handled after it,
\* and the top-level call returns that status.
C8_CallbackErrorEndsRun ==
    \A n \in DOMAIN calls :
        calls[n].ret # 0 =>
            /\ n = Len(calls)
            /\ \A x \in DOMAIN log : x > calls[n].at => log[x].t \notin {"section", "property"}
            /\ pc = "done" => ret = calls[n].ret

\* The regular entries of the listing, by index.
Regular == {k \in DOMAIN namelist : ~Skipped(namelist[k])}

\* C9: config_dir_load opens the entries other than "." and ".." in the order
\* of the sorted listing, one after the other; a failed load (not-found
\* included) is the last one: no later entry is opened, no later callback is
\* invoked, and its status is the one returned.
C9_DirAbortsOnFailure ==
    fn = "config_dir_load" =>
        /\ Len(opens) <= Cardinality(Regular)
        /\ \A j \in DOMAIN opens :
              /\ opens[j].i = Nth(Regular, j)
              /\ opens[j].path = Path(DirPath, namelist[opens[j].i])
        /\ \A j \in DOMAIN loads :
              /\ loads[j].i = opens[j].i
              /\ loads[j].err # 0 =>
                    /\ j = Len(loads) /\ j = Len(opens)
                    /\ pc = "done" /\ ret = loads[j].err
                    /\ \A n \in DOMAIN calls : calls[n].f <= loads[j].i
                    /\ \A x \in DOMAIN log : log[x].f <= loads[j].i

\* C9 witness: the first of two regular entries failed with not-found; the
\* second was not opened and config_dir_load returned not-found.
C9_Witness ==
    /\ fn = "config_dir_load" /\ Cardinality(Regular) = 2
    /\ pc = "done" /\ ret = -ENOENT
    /\ Len(loads) = 1 /\ loads[1].err = -ENOENT /\ Len(opens) = 1

\* The preamble key/values recorded before event j, over all entries.
PreambleWrites(j) ==
    {x \in 1 .. (j - 1) :
        /\ log[x].t = "property" /\ log[x].ok
        /\ \A h \in 1 .. (x - 1) : ~(log[h].f = log[x].f /\ log[h].t = "section")}

\* C10: in config_dir_load the global store holds the preamble key/values of
\* all entries read so far (last value per key) and nothing else; a delivered
\* section was opened by a header of the entry being read and holds exactly
\* the preamble keys of this and the earlier entries as they stood at its
\* header, "name", and the key/values of its own body, the later write winning.
C10_DirSharesGlobal ==
    fn = "config_dir_load" =>
        /\ DOMAIN GlobalMap = KeysIn(PreambleWrites(Len(log) + 1))
        /\ \A k \in DOMAIN GlobalMap :
              GlobalMap[k] = LastValue(PreambleWrites(Len(log) + 1), k)
        /\ \A n \in DOMAIN calls :
              LET c == calls[n]
                  hs == {x \in HeadersOf(c.f) : x < c.at /\ log[x].ok}
              IN  /\ hs # {}
                  /\ LET h == Max(hs)
                         P == PreambleWrites(h)
                         B == {x \in Body(h) : x < c.at /\ log[x].ok}
                     IN  /\ DOMAIN c.map = KeysIn(P) \cup {"name"} \cup KeysIn(B)
                         /\ \A k \in DOMAIN c.map :
                               IF k \in KeysIn(B) THEN c.map[k] = LastValue(B, k)
                               ELSE IF k = "name" THEN c.map[k] = log[h].v
                               ELSE c.map[k] = LastValue(P, k)

\* C10 witness: a section of one entry is delivered without g, and a section
\* of a later entry, whose preamble set g, is delivered with that value.
C10_Witness ==
    /\ fn = "config_dir_load"
    /\ \E n1, n2 \in DOMAIN calls :
          /\ calls[n1].f < calls[n2].f
          /\ "g" \notin DOMAIN calls[n1].map
          /\ "g" \in KeysIn(Preamble(calls[n2].f))
          /\ "g" \in DOMAIN calls[n2].map
          /\ calls[n2].map["g"] = LastValue(Preamble(calls[n2].f), "g")

\* C11 as stated: when the directory cannot be listed and quiet is set, a
\* diagnostic is emitted and a failure status returned; when quiet is not set
\* the failure is reported; in both cases nothing is opened or delivered.
C11_QuietStillDiagnoses ==
    diag.failed =>
        /\ pc = "done" /\ ret # 0
        /\ diag.quiet => diag.perror
        /\ ~diag.quiet => diag.perror
        /\ opens = <<>> /\ calls = <<>>

\* C11 amended: when the directory cannot be listed, config_dir_load returns
\* -1 whether quiet is set or not; the diagnostic is emitted exactly when quiet
\* is not set; no file is opened, no event read and no callback invoked.
C11_QuietSuppressesDiagnostic ==
    diag.failed =>
        /\ pc = "done" /\ ret = -1
        /\ diag.perror = ~diag.quiet
        /\ opens = <<>> /\ calls = <<>> /\ log = <<>> /\ fds = 0

\* C11 witness: the listing failed with quiet set and the call has returned.
C11_Witness ==
    /\ fn = "config_dir_load" /\ pc = "done"
    /\ diag.failed /\ diag.quiet /\ ~diag.perror /\ ret = -1

\* No section header has been read in this run.
NoHeaders == \A x \in DOMAIN log : log[x].t # "section"

\* The key/values recorded so far.
Recorded == {x \in DOMAIN log : log[x].t = "property" /\ log[x].ok}

\* C12: as long as the input holds no section header the callback is never
\* invoked and no section is open; the key/values go to the global store only;
\* a file read to its end gives status 0; and a directory holding only "."
\* and ".." gives no open attempt, no callback invocation and status 0.
C12_NoHeaderNoCallback ==
    /\ NoHeaders =>
          /\ calls = <<>>
          /\ conf.section = NULL
          /\ ~freed => /\ DOMAIN GlobalMap = KeysIn(Recorded)
                       /\ \A k \in DOMAIN GlobalMap : GlobalMap[k] = LastValue(Recorded, k)
          /\ \A j \in DOMAIN loads : Ended(loads[j].i) => loads[j].err = 0
          /\ (pc = "done" /\ loads # <<>> /\ \A j \in DOMAIN loads : Ended(loads[j].i))
                => ret = 0
    /\ (fn = "config_dir_load" /\ pc = "done" /\ ~diag.failed /\ Regular = {}) =>
          /\ opens = <<>> /\ calls = <<>> /\ ret = 0

\* C12 witness: a directory run with a callback has returned 0 after reading
\* an empty file and a file holding only key/values, without any invocation.
C12_Witness ==
    /\ fn = "config_dir_load" /\ conf.cb /\ pc = "done" /\ ret = 0
    /\ NoHeaders /\ calls = <<>>
    /\ Len(loads) = 2
    /\ \E f1, f2 \in Files :
          /\ \A x \in DOMAIN log : log[x].f = f1 => log[x].t = "end"
          /\ \E x \in Recorded : log[x].f = f2

\* C13 as stated: whenever config_open has returned, and when the top-level
\* call has returned, no descriptor obtained by sys_open is still open.
C13_HandlesClosed ==
    pc \in {"ret", "loop", "done"} => fds = 0

\* C14 as stated: when the top-level call has returned, a global store it
\* created has been destroyed; and a destroyed store is never copied from,
\* written or destroyed again (each of which may crash the process).
C14_GlobalDestroyedOnce ==
    /\ pc = "done" => (conf.global # NULL => freed)
    /\ \A x \in DOMAIN log : ~log[x].d
    /\ pc # "crashed"

\* C15 as stated: the section stores allocated and not released are the one
\* still open, if any (a finalized section has been released), and none is
\* left when the top-level call has returned.
C15_SectionsReleased ==
    /\ live = (IF conf.section # NULL THEN 1 ELSE 0)
    /\ pc = "done" => live = 0

\* C16: in the step in which config_read handles ini_read's status: on 0 or
\* -EAGAIN an open section is delivered exactly once (when there is a
\* callback) and config_read's status is what the callback returned, or 0
\* when nothing was delivered, the section being closed when the status is
\* 0; on any other status, that status is returned, nothing is delivered and
\* the section stays as it was.
C16_ReadEndStatuses ==
    [][ pc = "readret" =>
          IF rerr \in {0, -EAGAIN}
          THEN IF conf.section # NULL /\ conf.cb
               THEN /\ Len(calls') = Len(calls) + 1
                    /\ SubSeq(calls', 1, Len(calls)) = calls
                    /\ calls'[Len(calls')].map = conf.section[1]
                    /\ err' = calls'[Len(calls')].ret
                    /\ err' = 0 => conf'.section = NULL
               ELSE calls' = calls /\ err' = 0 /\ conf'.section = NULL
          ELSE err' = rerr /\ calls' = calls /\ conf' = conf ]_vars

\* C16 witness: the reader ended a file with a section open, the section was
\* delivered at that end and config_read handed back the callback's non-zero
\* status.
C16_Witness ==
    /\ pc = "ret" /\ log # <<>> /\ log[Len(log)].t = "end" /\ log[Len(log)].s
    /\ calls # <<>> /\ calls[Len(calls)].at = Len(log)
    /\ err # 0 /\ err = calls[Len(calls)].ret

\* The directory in which candidate / entry number f was opened.
OpenedIn(f) == opens[CHOOSE j \in DOMAIN opens : opens[j].i = f].where

\* The sys_chdir of the file being loaded failed: it was opened, config_open
\* has returned, and the reader was never started on it.
ChdirFailed ==
    /\ pc = "ret" /\ opens # <<>> /\ opens[Len(opens)].res = 0
    /\ \A x \in DOMAIN log : log[x].f # i

\* C17 as stated: at every callback invocation the working directory is the
\* directory of the file whose header opened the delivered section; and when
\* the change of directory fails, the working directory is unchanged, no
\* callback is invoked for the file and the status is non-zero.
C17_CallbackInFileDirectory ==
    /\ \A n \in DOMAIN calls :
          calls[n].cwd = OpenedIn(log[OpenerOf(calls[n])].f)
    /\ ChdirFailed => /\ err # 0
                      /\ \A n \in DOMAIN calls : calls[n].f # i

\* The last header read, and whether the section it opened is incomplete: its
\* handler failed, and not because the callback refused the previous section.
LastHeader == Max({x \in DOMAIN log : log[x].t = "section"})
OpeningFailed ==
    /\ ~log[LastHeader].ok
    /\ ~\E n \in DOMAIN calls : calls[n].at = LastHeader /\ calls[n].ret # 0

\* A section is present and its opening has completed.
OpenSection == conf.section # NULL /\ ~OpeningFailed

\* C18: whenever a section is open, it holds the key "name" and every key of
\* the (live) global store; a key/value event received with no section open
\* changes the global store only, creating it when absent, and one received
\* with a section open changes that section only.
C18_SectionCoversGlobal ==
    /\ [](OpenSection =>
            /\ "name" \in DOMAIN conf.section[1]
            /\ ~freed => DOMAIN GlobalMap \subseteq DOMAIN conf.section[1])
    /\ [][ (pc = "read" /\ Len(log') = Len(log) + 1 /\ log'[Len(log')].t = "property") =>
             LET e == log'[Len(log')] IN
             IF conf.section = NULL
             THEN /\ conf'.section = NULL
                  /\ e.ok => conf'.global = <<map_set(GlobalMap, e.k, e.v)>>
             ELSE /\ conf'.global = conf.global
                  /\ conf'.section # NULL
                  /\ e.ok => conf'.section = <<map_set(conf.section[1], e.k, e.v)>> ]_vars

\* C18 witness: a section opened over the global g has since received its own
\* g, and the global store has kept its value.
C18_Witness ==
    /\ pc = "read" /\ OpenSection /\ ~freed
    /\ "g" \in DOMAIN GlobalMap /\ "g" \in DOMAIN conf.section[1]
    /\ conf.section[1]["g"] # GlobalMap["g"]

\* C19 as stated: when the reader is started on a file no section is open; a
\* delivered section was opened by a header of the file being read at the
\* invocation; and no key/value of a file's preamble arrives with a section open.
C19_ReadStartsInNoSection ==
    /\ (pc = "read" /\ \A x \in DOMAIN log : log[x].f # i) => conf.section = NULL
    /\ \A n \in DOMAIN calls : log[OpenerOf(calls[n])].f = calls[n].f
    /\ \A f \in Files : \A x \in Preamble(f) : ~log[x].s

\* C20 as stated: every entry of the directory is opened in the directory the
\* path named when config_dir_load was called, for a relative path as for an
\* absolute one.
C20_EntriesOpenedInDirectory ==
    fn = "config_dir_load" =>
        \A j \in DOMAIN opens :
            opens[j].where = (IF arg.rel THEN "." \o "/" \o DirPath ELSE DirPath)

====
